---- MODULE Spec2Model ----
(***************************************************************************)
(* Notification delivery, preference and reminder engine of the LinkedIn   *)
(* Ghostwriter backend: NotificationService (send_post_notification,       *)
(* retry_send, send_daily_reminder, log_delivery), the settings endpoint   *)
(* that writes the preference rows, and SchedulerService's hourly sweep.   *)
(***************************************************************************)
EXTENDS Integers, Sequences, FiniteSets, TLC

\* ------------------------------------------------------------------ bounds
MaxCalls == 1
MaxLogRows == 4
MaxUpdates == 1
MaxSweepUpdates == 2
MaxRetries == 3
MaxStarts == 2
MaxPosts == 2
MaxTasks == 2
MaxRequests == 2
MaxTemplates == 2
MaxVersionRows == 4
MaxDays == 2

\* ------------------------------------------------------------ value spaces
None == "None"
NullId == 0
UserIds == {1, 2}
NoSuchUser == Cardinality(UserIds) + 1
PostIds == {1}
NoSuchPost == Cardinality(PostIds) + 1
ChatIds == {"123"}
Channels == {"email", "telegram"}
InvalidChannel == "sms"
TelegramEnvs == {"ok", "telegram_error"}
EmailEnvs == {"ok", "smtp_error"}
Envs == [tg : TelegramEnvs, em : EmailEnvs, db : BOOLEAN]

VARIABLES
    telegram_bot,              \* NotificationService.telegram_bot is set
    smtp_credentials,          \* smtp_username and smtp_password are set
    telegram_chat_id,          \* users.telegram_chat_id, per user id
    notification_preferences,  \* rows of the notification_preferences table
    posts,                     \* rows of the posts table, by post id
    delivery_logs,             \* rows of the delivery_logs table, in insertion order
    call,                      \* the engine call in progress or last finished
    tick,                      \* the scheduler sweep in progress or last finished
    n_calls,                   \* engine calls and sweeps started so far
    n_updates,                 \* settings requests served so far
    scheduler,                 \* SchedulerService: is_running and the job store
    in_flight,                 \* settings requests between their query and commit
    background_tasks,          \* BackgroundTasks queued by the send endpoint
    response,                  \* what the last endpoint call answered
    templates,                 \* rows of the templates table, by template id
    template_versions,         \* rows of the template_versions table, in insertion order
    clock,                     \* wall clock of the server, to the hour
    waiting,                   \* per user: sweeps begun since the reminder path last ran
    reminded                   \* which sweeps invoked the reminder path, for whom

vars == <<telegram_bot, smtp_credentials, telegram_chat_id, notification_preferences, posts, delivery_logs,
          call, tick, n_calls, n_updates, scheduler, in_flight, background_tasks, response,
          templates, template_versions, clock, waiting, reminded>>

\* ------------------------------------------------------------------ models
time_obj(h, m, s) == [hour |-> h, minute |-> m, second |-> s]

DefaultReminderTime == time_obj(9, 0, 0)

NotificationPreferences(u, email, telegram, reminder, t) ==
    [user_id |-> u,
     receive_email_notifications |-> email,
     receive_telegram_notifications |-> telegram,
     daily_reminder_enabled |-> reminder,
     daily_reminder_time |-> t]

\* Column defaults of the model: a row made with only user_id gets these.
ColumnDefaults(u) == NotificationPreferences(u, TRUE, TRUE, FALSE, DefaultReminderTime)

DeliveryLog(user_id, post_id, channel, status, error_message) ==
    [user_id |-> user_id, post_id |-> post_id, channel |-> channel,
     status |-> status, error_message |-> error_message]

\* db.query(NotificationPreferences).filter(user_id == u)
QueryPreferences(u) == {r \in notification_preferences : r.user_id = u}

HasPreferences(u) == QueryPreferences(u) # {}

\* .first() of that query
FirstPreferences(u) == CHOOSE r \in QueryPreferences(u) : TRUE

\* ---------------------------------------------------------------- adapters
Result(success, error) == [success |-> success, error |-> error]

\* env is what the transport does with the message once it is handed over.
send_telegram_message(env) ==
    IF ~telegram_bot THEN Result(FALSE, "Telegram bot not configured")
    ELSE IF env = "ok" THEN Result(TRUE, None)
    ELSE Result(FALSE, "Telegram error: send failed")

send_email(env) ==
    IF ~smtp_credentials THEN Result(FALSE, "SMTP credentials not configured")
    ELSE IF env = "ok" THEN Result(TRUE, None)
    ELSE Result(FALSE, "SMTP error: send failed")

\* ------------------------------------------------------------ log_delivery
\* The row log_delivery adds; db.commit() either stores it or raises.
log_delivery(db_ok, user_id, post_id, channel, status, error_message) ==
    IF db_ok
    THEN [rows |-> <<DeliveryLog(user_id, post_id, channel, status, error_message)>>,
          raised |-> FALSE]
    ELSE [rows |-> <<>>, raised |-> TRUE]

\* ------------------------------------------------- send_post_notification
ChannelDisabled_EmailOnly(user_id, channel) ==
    /\ HasPreferences(user_id)
    /\ channel = "email" /\ ~FirstPreferences(user_id).receive_email_notifications

ChannelDisabled(user_id, channel) ==
    /\ HasPreferences(user_id)
    /\ \/ channel = "email" /\ ~FirstPreferences(user_id).receive_email_notifications
       \/ channel = "telegram" /\ ~FirstPreferences(user_id).receive_telegram_notifications

DisabledMessage(channel) ==
    IF channel = "email" THEN "Email notifications disabled"
    ELSE "Telegram notifications disabled"

\* What one run of send_post_notification does: its result, the adapters it
\* invoked, the rows it added, and whether log_delivery raised.
Outcome(success, error, adapter_calls, rows, raised, path) ==
    [success |-> success, error |-> error, adapter_calls |-> adapter_calls,
     rows |-> rows, raised |-> raised, path |-> path]

\* One invocation of a channel adapter and what it returned.
AdapterCall(adapter, r) == [adapter |-> adapter, success |-> r.success, error |-> r.error]

ChatConfigured_Always(user_id) == TRUE

\* `not user.telegram_chat_id`
ChatConfigured(user_id) == telegram_chat_id[user_id] \notin {None, ""}

ChannelSend(user_id, channel, env) ==
    IF channel = "telegram"
    THEN IF ~ChatConfigured(user_id)
         THEN [r |-> Result(FALSE, "Telegram chat ID not configured"), adapter_calls |-> <<>>]
         ELSE [r |-> send_telegram_message(env.tg),
               adapter_calls |-> <<AdapterCall("telegram", send_telegram_message(env.tg))>>]
    ELSE IF channel = "email"
         THEN [r |-> send_email(env.em),
               adapter_calls |-> <<AdapterCall("email", send_email(env.em))>>]
         ELSE [r |-> Result(FALSE, "Invalid channel: " \o channel), adapter_calls |-> <<>>]

LoggedStatus_AlwaysDelivered(success) == "delivered"

LoggedStatus(success) == IF success THEN "delivered" ELSE "failed"

send_post_notification(user_id, post_id, channel, env) ==
    IF user_id \notin UserIds
    THEN Outcome(FALSE, "User not found", <<>>, <<>>, FALSE, "no_user")
    ELSE IF ChannelDisabled(user_id, channel)
    THEN Outcome(FALSE, DisabledMessage(channel), <<>>, <<>>, FALSE, "disabled")
    ELSE LET s == ChannelSend(user_id, channel, env)
             l == log_delivery(env.db, user_id, post_id, channel,
                               LoggedStatus(s.r.success), s.r.error)
         IN  Outcome(s.r.success, s.r.error, s.adapter_calls, l.rows, l.raised, "sent")

\* ------------------------------------------------------------- call record
IdleCall ==
    [kind |-> "none", pc |-> "idle", user_id |-> NullId, post_id |-> NullId,
     channel |-> None, max_retries |-> 0, attempt |-> 0,
     success |-> FALSE, error |-> None, exc |-> None,
     log_start |-> 0, adapter_calls |-> <<>>, paths |-> <<>>,
     attempt_results |-> <<>>, sleeps |-> <<>>, storage_errors |-> 0]

IdleTick ==
    [pc |-> "idle", hour |-> 0, minute |-> 0, preferences_list |-> <<>>,
     idx |-> 1, invoked |-> <<>>, raised |-> <<>>, session |-> "none",
     cancelled |-> FALSE]

\* An engine call starts only while the rows it can add still fit the log bound.
Fits(rows) == Len(delivery_logs) + rows <= MaxLogRows

\* SchedulerService.__init__: a fresh AsyncIOScheduler, is_running False.
StoppedScheduler ==
    [is_running |-> FALSE, state |-> "stopped", jobs |-> <<>>, raised |-> None,
     op |-> None, starts |-> 0]

\* Before any endpoint has answered.
NoResponse ==
    [endpoint |-> None, request |-> [user_id |-> NullId], status_code |-> 0,
     body |-> [detail |-> None]]

\* An endpoint's answer, kept with the request it answers.
Response(endpoint, request, status_code, body) ==
    [endpoint |-> endpoint, request |-> request, status_code |-> status_code,
     body |-> body]

\* No sweep has yet been begun for the user's present reminder setting.
NotWaiting(u) == [row |-> ColumnDefaults(u), hours |-> 0]

CallFinished == call.pc \in {"idle", "returned", "raised"}
TickFinished == tick.pc \in {"idle", "done"}
Quiescent == CallFinished /\ TickFinished

Init ==
    /\ telegram_bot \in BOOLEAN
    /\ smtp_credentials \in BOOLEAN
    /\ telegram_chat_id = [u \in UserIds |-> None]
    /\ notification_preferences = {}
    /\ posts = [p \in PostIds |-> [user_id |-> 1, status |-> "draft"]]
    /\ delivery_logs = <<>>
    /\ call = IdleCall
    /\ tick = IdleTick
    /\ n_calls = 0
    /\ n_updates = 0
    /\ scheduler = StoppedScheduler
    /\ in_flight = {}
    /\ background_tasks = <<>>
    /\ response = NoResponse
    /\ templates = <<>>
    /\ template_versions = <<>>
    /\ clock = [day |-> 0, hour |-> 0]
    /\ waiting = [u \in UserIds |-> NotWaiting(u)]
    /\ reminded = {}

\* --------------------------------------------------- engine call: one send
SendResult_Converts(o) ==
    [pc |-> "returned",
     success |-> IF o.raised THEN FALSE ELSE o.success,
     error |-> IF o.raised THEN "StorageError" ELSE o.error,
     exc |-> None]

\* What the awaiting caller gets: the (success, error) pair, or the exception
\* that log_delivery let through.
SendResult(o) ==
    IF o.raised
    THEN [pc |-> "raised", success |-> FALSE, error |-> None, exc |-> "StorageError"]
    ELSE [pc |-> "returned", success |-> o.success, error |-> o.error, exc |-> None]

\* A background task awaiting send_post_notification(db, user_id, post, channel).
SendPostNotification(user_id, post_id, channel, env) ==
    /\ Quiescent
    /\ Fits(1)
    /\ LET o == send_post_notification(user_id, post_id, channel, env)
       IN  /\ delivery_logs' = delivery_logs \o o.rows
           /\ call' = [IdleCall EXCEPT
                 !.kind = "send",
                 !.pc = SendResult(o).pc,
                 !.user_id = user_id, !.post_id = post_id, !.channel = channel,
                 !.success = SendResult(o).success,
                 !.error = SendResult(o).error,
                 !.exc = SendResult(o).exc,
                 !.storage_errors = IF o.raised THEN 1 ELSE 0,
                 !.log_start = Len(delivery_logs),
                 !.adapter_calls = o.adapter_calls,
                 !.paths = <<o.path>>]
    /\ n_calls' = n_calls + 1
    /\ UNCHANGED <<clock, waiting, reminded, templates, template_versions, telegram_bot, smtp_credentials, scheduler, in_flight, response, telegram_chat_id, notification_preferences, posts, tick, n_updates>>

\* ------------------------------------------------------------- retry_send
\* Entry of retry_send: the post lookup, then the loop header.  With
\* max_retries = 0 the loop body never runs and the final return statement
\* reads the unassigned local `error`.
RetrySend(user_id, post_id, channel, max_retries) ==
    /\ Quiescent
    /\ n_calls < MaxCalls
    /\ Fits(max_retries + 1)
    /\ call' = [IdleCall EXCEPT
          !.kind = "retry",
          !.user_id = user_id, !.post_id = post_id, !.channel = channel,
          !.max_retries = max_retries,
          !.log_start = Len(delivery_logs),
          !.pc = IF post_id \notin DOMAIN posts THEN "returned"
                 ELSE IF max_retries = 0 THEN "raised" ELSE "attempt",
          !.error = IF post_id \notin DOMAIN posts THEN "Post not found" ELSE None,
          !.exc = IF post_id \in DOMAIN posts /\ max_retries = 0
                  THEN "UnboundLocalError" ELSE None]
    /\ n_calls' = n_calls + 1
    /\ UNCHANGED <<clock, waiting, reminded, templates, template_versions, telegram_bot, smtp_credentials, scheduler, in_flight, background_tasks, response, telegram_chat_id, notification_preferences, posts,
                   delivery_logs, tick, n_updates>>

FailedAfter(max_retries, error) ==
    "Failed after " \o ToString(max_retries) \o " attempts: " \o error

NeedsRetriedRow_Always(attempt) == attempt >= 0

\* `if attempt > 0` guarding the extra 'retried' row
NeedsRetriedRow(attempt) == attempt > 0

LastAttempt_OneShort(attempt, max_retries) == attempt + 2 >= max_retries

\* Whether `attempt` is the last index of range(max_retries)
LastAttempt(attempt, max_retries) == attempt + 1 >= max_retries

AfterAttempt_NoBreak(raised, success, last) ==
    IF raised THEN "raised"
    ELSE IF last THEN "returned"
    ELSE "sleep"

\* Where the loop goes after a pass: out by exception, out by return, or on
\* to the next pass, which begins with the backoff sleep.
AfterAttempt(raised, success, last) ==
    IF raised THEN "raised"
    ELSE IF success \/ last THEN "returned"
    ELSE "sleep"

AppendRows_RetriedFirst(logs, attempt_rows, retried_rows) ==
    logs \o retried_rows \o attempt_rows

\* The row of the inner send is committed before the 'retried' row is.
AppendRows(logs, attempt_rows, retried_rows) ==
    logs \o attempt_rows \o retried_rows

AttemptOutcome_ChecksOnce(c, env) ==
    IF c.attempt = 0 \/ c.user_id \notin UserIds
    THEN send_post_notification(c.user_id, c.post_id, c.channel, env)
    ELSE LET s == ChannelSend(c.user_id, c.channel, env)
             l == log_delivery(env.db, c.user_id, c.post_id, c.channel,
                               LoggedStatus(s.r.success), s.r.error)
         IN  Outcome(s.r.success, s.r.error, s.adapter_calls, l.rows, l.raised, "sent")

\* Every pass awaits the whole of send_post_notification, which queries the
\* user and the preference row anew.
AttemptOutcome(c, env) ==
    send_post_notification(c.user_id, c.post_id, c.channel, env)

\* One pass of the loop body from the send to the next suspension or return.
RetryAttempt(env, db_ok2) ==
    /\ call.kind = "retry"
    /\ call.pc = "attempt"
    /\ LET o == AttemptOutcome(call, env)
           l == IF ~o.raised /\ o.success /\ NeedsRetriedRow(call.attempt)
                THEN log_delivery(db_ok2, call.user_id, call.post_id, call.channel,
                                  "retried", None)
                ELSE [rows |-> <<>>, raised |-> FALSE]
           last == LastAttempt(call.attempt, call.max_retries)
           pc == AfterAttempt(o.raised \/ l.raised, o.success, last)
       IN  /\ delivery_logs' = AppendRows(delivery_logs, o.rows, l.rows)
           /\ call' = [call EXCEPT
                 !.storage_errors = IF o.raised \/ l.raised THEN @ + 1 ELSE @,
                 !.adapter_calls = @ \o o.adapter_calls,
                 !.paths = Append(@, o.path),
                 !.attempt_results = Append(@, Result(o.success, o.error)),
                 !.pc = pc,
                 !.exc = IF pc = "raised" THEN "StorageError" ELSE None,
                 !.success = pc = "returned" /\ o.success,
                 !.error = IF pc = "raised" \/ o.success THEN None
                           ELSE IF pc = "returned" THEN FailedAfter(call.max_retries, o.error)
                           ELSE o.error,
                 !.attempt = IF pc = "sleep" THEN @ + 1 ELSE @]
    /\ UNCHANGED <<clock, waiting, reminded, templates, template_versions, telegram_bot, smtp_credentials, scheduler, in_flight, background_tasks, response, telegram_chat_id, notification_preferences, posts, tick,
                   n_calls, n_updates>>

Backoff_FromOne(attempt) == 2 ^ (attempt - 1)

\* 2 ** attempt
Backoff(attempt) == 2 ^ attempt

\* await asyncio.sleep(2 ** attempt) at the top of a pass with attempt > 0.
RetrySleep ==
    /\ call.kind = "retry"
    /\ call.pc = "sleep"
    /\ call' = [call EXCEPT !.pc = "attempt", !.sleeps = Append(@, Backoff(call.attempt))]
    /\ UNCHANGED <<clock, waiting, reminded, templates, template_versions, telegram_bot, smtp_credentials, scheduler, in_flight, background_tasks, response, telegram_chat_id, notification_preferences, posts, delivery_logs,
                   tick, n_calls, n_updates>>

\* ------------------------------------------------------ send_daily_reminder
RemindersEnabled_AnyRow(user_id) == HasPreferences(user_id)

\* Negation of `not preferences or not preferences.daily_reminder_enabled`
RemindersEnabled(user_id) ==
    HasPreferences(user_id) /\ FirstPreferences(user_id).daily_reminder_enabled

TryTelegram_Never(preferences, user_id) == FALSE

\* `preferences.receive_telegram_notifications and user.telegram_chat_id`
TryTelegram(preferences, user_id) ==
    preferences.receive_telegram_notifications /\ ChatConfigured(user_id)

FallThrough_ChatError(try_tg, tg) ==
    IF try_tg THEN tg.error ELSE "No notification channels enabled"

\* The last return statement: `error` of a failed chat attempt is not used.
FallThrough(try_tg, tg) == "No notification channels enabled"

send_daily_reminder(user_id, env) ==
    IF user_id \notin UserIds
    THEN Outcome(FALSE, "User not found", <<>>, <<>>, FALSE, "no_user")
    ELSE IF ~RemindersEnabled(user_id)
    THEN Outcome(FALSE, "Daily reminders not enabled", <<>>, <<>>, FALSE, "not_enabled")
    ELSE LET preferences == FirstPreferences(user_id)
             try_tg == TryTelegram(preferences, user_id)
             tg == send_telegram_message(env.tg)
             tg_calls == IF try_tg THEN <<AdapterCall("telegram", tg)>> ELSE <<>>
             em == send_email(env.em)
             em_calls == <<AdapterCall("email", em)>>
         IN  IF try_tg /\ tg.success
             THEN LET l == log_delivery(env.db, user_id, NullId, "telegram", "delivered", None)
                  IN  Outcome(TRUE, None, tg_calls, l.rows, l.raised, "telegram")
             ELSE IF preferences.receive_email_notifications
             THEN IF em.success
                  THEN LET l == log_delivery(env.db, user_id, NullId, "email", "delivered", None)
                       IN  Outcome(TRUE, None, tg_calls \o em_calls, l.rows, l.raised, "email")
                  ELSE Outcome(FALSE, em.error, tg_calls \o em_calls, <<>>, FALSE, "email")
             ELSE Outcome(FALSE, FallThrough(try_tg, tg), tg_calls, <<>>, FALSE,
                          "no_channel")

\* A caller awaiting send_daily_reminder(db, user_id).
SendDailyReminder(user_id, env) ==
    /\ Quiescent
    /\ n_calls < MaxCalls
    /\ Fits(1)
    /\ LET o == send_daily_reminder(user_id, env)
       IN  /\ delivery_logs' = delivery_logs \o o.rows
           /\ call' = [IdleCall EXCEPT
                 !.kind = "reminder",
                 !.pc = IF o.raised THEN "raised" ELSE "returned",
                 !.user_id = user_id,
                 !.success = IF o.raised THEN FALSE ELSE o.success,
                 !.error = IF o.raised THEN None ELSE o.error,
                 !.exc = IF o.raised THEN "StorageError" ELSE None,
                 !.log_start = Len(delivery_logs),
                 !.adapter_calls = o.adapter_calls,
                 !.attempt_results = <<Result(o.success, o.error)>>,
                 !.paths = <<o.path>>]
    /\ n_calls' = n_calls + 1
    /\ UNCHANGED <<clock, waiting, reminded, templates, template_versions, telegram_bot, smtp_credentials, scheduler, in_flight, background_tasks, response, telegram_chat_id, notification_preferences, posts, tick, n_updates>>

\* ------------------------------------------------------ settings endpoints
\* GET /notifications/settings: creates the row with explicit defaults.
\* The row the GET handler makes when the user has none.
LazyDefaults(user_id) ==
    NotificationPreferences(user_id, TRUE, TRUE, FALSE, time_obj(9, 0, 0))

get_notification_settings(user_id) ==
    /\ Quiescent \/ call.pc = "sleep"
    /\ TickFinished
    /\ n_calls < MaxCalls \/ ~CallFinished
    /\ LET preferences == IF HasPreferences(user_id) THEN FirstPreferences(user_id)
                          ELSE LazyDefaults(user_id)
       IN  /\ notification_preferences' = notification_preferences \cup {preferences}
           /\ response' = Response("get_notification_settings",
                                   [user_id |-> user_id], 200, preferences)
    /\ UNCHANGED <<clock, waiting, reminded, templates, template_versions, telegram_bot, smtp_credentials, scheduler, in_flight, background_tasks, telegram_chat_id, posts, delivery_logs, call, tick, n_calls, n_updates>>

\* int() of a two-digit field of "HH:MM:SS"
ParseInt(digits) == 10 * digits[1] + digits[2]

\* time_parts = s.split(':'); time_obj(int(..), int(..), int(..))
ParseTime(time_parts) ==
    time_obj(ParseInt(time_parts[1]), ParseInt(time_parts[2]),
             IF Len(time_parts) > 2 THEN ParseInt(time_parts[3]) ELSE 0)

\* A request field that is absent is the empty set, a given value v is {v}.
Given(field, old) == IF field = {} THEN old ELSE CHOOSE v \in field : TRUE

\* The fields the request gives are written over the row; the rest stay.
ApplySettings(old, settings) ==
    NotificationPreferences(old.user_id,
       Given(settings.receive_email_notifications, old.receive_email_notifications),
       Given(settings.receive_telegram_notifications,
             old.receive_telegram_notifications),
       Given(settings.daily_reminder_enabled, old.daily_reminder_enabled),
       IF settings.daily_reminder_time = {} THEN old.daily_reminder_time
       ELSE ParseTime(CHOOSE t \in settings.daily_reminder_time : TRUE))

\* PUT /notifications/settings
update_notification_settings(user_id, settings) ==
    /\ Quiescent \/ call.pc = "sleep"
    /\ TickFinished
    /\ n_calls < MaxCalls \/ ~CallFinished
    /\ LET old == IF HasPreferences(user_id) THEN FirstPreferences(user_id)
                  ELSE ColumnDefaults(user_id)
           new == ApplySettings(old, settings)
       IN  /\ notification_preferences' =
                 (notification_preferences \ QueryPreferences(user_id)) \cup {new}
           /\ response' = Response("update_notification_settings",
                                   [user_id |-> user_id], 200, new)
    /\ telegram_chat_id' = [telegram_chat_id EXCEPT
          ![user_id] = Given(settings.telegram_chat_id, @)]
    /\ n_updates' = n_updates + 1
    /\ UNCHANGED <<clock, waiting, reminded, templates, template_versions, telegram_bot, smtp_credentials, scheduler, in_flight, background_tasks, posts, delivery_logs, call, tick, n_calls>>

\* ------------------------------------ settings requests served concurrently
\* The query at the top of either settings handler, by a request whose write
\* has not been committed yet; other requests may be served in between.
BeginSettings(kind, user_id, settings) ==
    /\ Quiescent
    /\ n_updates < MaxRequests
    /\ in_flight' = in_flight \cup
          {[kind |-> kind, user_id |-> user_id, settings |-> settings,
            found |-> HasPreferences(user_id), n |-> n_updates]}
    /\ n_updates' = n_updates + 1
    /\ UNCHANGED <<clock, waiting, reminded, templates, template_versions, telegram_bot, smtp_credentials, telegram_chat_id,
                   notification_preferences, posts, delivery_logs, call, tick,
                   n_calls, scheduler, background_tasks, response>>

UniqueViolation_Unchecked(user_id) == FALSE

\* user_id is declared unique: an INSERT for a user who has a row is refused.
UniqueViolation(user_id) == HasPreferences(user_id)

\* The rest of the handler.  A request that found a row reads or updates it;
\* one that found none inserts, and the insert fails with IntegrityError
\* when another request has created the row meanwhile.
CommitSettings(r) ==
    /\ r \in in_flight
    /\ in_flight' = in_flight \ {r}
    /\ LET endpoint == IF r.kind = "get" THEN "get_notification_settings"
                       ELSE "update_notification_settings"
           request == [user_id |-> r.user_id]
           created == IF r.kind = "get" THEN LazyDefaults(r.user_id)
                      ELSE ApplySettings(ColumnDefaults(r.user_id), r.settings)
       IN  IF ~r.found
           THEN IF UniqueViolation(r.user_id)
                THEN /\ response' = Response(endpoint, request, 500,
                                             [detail |-> "IntegrityError"])
                     /\ UNCHANGED <<notification_preferences, telegram_chat_id>>
                ELSE /\ notification_preferences' =
                           notification_preferences \cup {created}
                     /\ response' = Response(endpoint, request, 200, created)
                     /\ telegram_chat_id' =
                           IF r.kind = "get" THEN telegram_chat_id
                           ELSE [telegram_chat_id EXCEPT ![r.user_id] =
                                    Given(r.settings.telegram_chat_id, @)]
           ELSE LET old == FirstPreferences(r.user_id)
                    new == IF r.kind = "get" THEN old
                           ELSE ApplySettings(old, r.settings)
                IN  /\ notification_preferences' =
                          (notification_preferences \ {old}) \cup {new}
                    /\ response' = Response(endpoint, request, 200, new)
                    /\ telegram_chat_id' =
                          IF r.kind = "get" THEN telegram_chat_id
                          ELSE [telegram_chat_id EXCEPT ![r.user_id] =
                                   Given(r.settings.telegram_chat_id, @)]
    /\ UNCHANGED <<clock, waiting, reminded, templates, template_versions, telegram_bot, smtp_credentials, posts, delivery_logs, call,
                   tick, n_calls, n_updates, scheduler, background_tasks>>

\* A request with no field given: what a GET carries.
NoSettings ==
    [receive_email_notifications |-> {}, receive_telegram_notifications |-> {},
     daily_reminder_enabled |-> {}, daily_reminder_time |-> {},
     telegram_chat_id |-> {}]

OptBool == {{}, {TRUE}, {FALSE}}
TimeStrings == {<<<<0, 9>>, <<0, 5>>, <<0, 0>>>>, <<<<0, 9>>, <<2, 0>>, <<0, 0>>>>}
OptChatId == {{}} \cup {{c} : c \in ChatIds}
OptTime == {{}} \cup {{t} : t \in TimeStrings}
\* Requests that touch the channel flags and the chat id only.
ChannelRequests ==
    [receive_email_notifications : OptBool,
     receive_telegram_notifications : OptBool,
     daily_reminder_enabled : {{}},
     daily_reminder_time : {{}},
     telegram_chat_id : OptChatId]
\* Requests that link a chat and may switch the email flag off.
ChatRequests ==
    [receive_email_notifications : {{}, {FALSE}},
     receive_telegram_notifications : {{}},
     daily_reminder_enabled : {{}},
     daily_reminder_time : {{}},
     telegram_chat_id : {{c} : c \in ChatIds}]
\* Requests that also switch the daily reminder.
ReminderRequests ==
    [receive_email_notifications : OptBool,
     receive_telegram_notifications : OptBool,
     daily_reminder_enabled : {{TRUE}, {FALSE}},
     daily_reminder_time : {{}},
     telegram_chat_id : OptChatId]
\* Requests that set the reminder flag and time only.
TimeRequests ==
    [receive_email_notifications : {{}},
     receive_telegram_notifications : {{}},
     daily_reminder_enabled : {{TRUE}, {FALSE}},
     daily_reminder_time : OptTime,
     telegram_chat_id : {{}}]

\* ------------------------------------------------ check_and_send_reminders
TickHours == {8, 9, 10}
TickMinutes == {0, 5, 19, 20}

EnabledPreferences == {r \in notification_preferences : r.daily_reminder_enabled}

\* The orders in which the unordered query can return its rows.
Orderings(S) ==
    {q \in [1..Cardinality(S) -> S] : \A i, j \in 1..Cardinality(S) : i # j => q[i] # q[j]}

Abs(x) == IF x < 0 THEN -x ELSE x

ReminderMatches_Inclusive(prefs, current_hour, current_minute) ==
    /\ prefs.daily_reminder_time.hour = current_hour
    /\ Abs(prefs.daily_reminder_time.minute - current_minute) <= 15

ReminderMatches(prefs, current_hour, current_minute) ==
    /\ prefs.daily_reminder_time.hour = current_hour
    /\ Abs(prefs.daily_reminder_time.minute - current_minute) < 15

\* Session opened, clock read, enabled rows queried.  A failing query is
\* caught by the outer handler and the session is closed.
TickStart(current_hour, current_minute, query_ok) ==
    /\ Quiescent
    /\ n_calls < MaxCalls
    /\ Fits(Cardinality(UserIds))
    /\ IF query_ok
       THEN \E order \in Orderings(EnabledPreferences) :
               tick' = [IdleTick EXCEPT !.pc = "loop", !.hour = current_hour,
                          !.minute = current_minute, !.preferences_list = order,
                          !.session = "open"]
       ELSE tick' = [IdleTick EXCEPT !.pc = "done", !.hour = current_hour,
                          !.minute = current_minute, !.session = "closed"]
    /\ n_calls' = n_calls + 1
    /\ UNCHANGED <<clock, waiting, reminded, templates, template_versions, telegram_bot, smtp_credentials, scheduler, in_flight, background_tasks, response, telegram_chat_id, notification_preferences, posts, delivery_logs,
                   call, n_updates>>

NextIdx_AbortOnRaise(idx, raised, len) == IF raised THEN len + 1 ELSE idx + 1

\* The inner try/except keeps the loop going whether or not the send raised.
NextIdx(idx, raised, len) == idx + 1

\* One iteration of the loop over preferences_list.
TickUser(env) ==
    /\ tick.pc = "loop"
    /\ tick.idx <= Len(tick.preferences_list)
    /\ LET prefs == tick.preferences_list[tick.idx]
           match == ReminderMatches(prefs, tick.hour, tick.minute)
           o == send_daily_reminder(prefs.user_id, env)
       IN  /\ delivery_logs' = IF match THEN delivery_logs \o o.rows ELSE delivery_logs
           /\ tick' = [tick EXCEPT
                 !.idx = NextIdx(@, match /\ o.raised, Len(tick.preferences_list)),
                 !.invoked = IF match THEN Append(@, prefs.user_id) ELSE @,
                 !.raised = IF match /\ o.raised THEN Append(@, prefs.user_id) ELSE @]
    /\ UNCHANGED <<clock, waiting, reminded, templates, template_versions, telegram_bot, smtp_credentials, scheduler, in_flight, background_tasks, response, telegram_chat_id, notification_preferences, posts, call,
                   n_calls, n_updates>>

\* Loop exhausted: the finally clause closes the session.
TickEnd ==
    /\ tick.pc = "loop"
    /\ tick.idx > Len(tick.preferences_list)
    /\ tick' = [tick EXCEPT !.pc = "done", !.session = "closed"]
    /\ UNCHANGED <<clock, waiting, reminded, templates, template_versions, telegram_bot, smtp_credentials, scheduler, in_flight, background_tasks, response, telegram_chat_id, notification_preferences, posts, delivery_logs,
                   call, n_calls, n_updates>>

\* ------------------------------------------------- the sweep, hour by hour
HoursPerDay == 24

\* The next full hour.
NextClock(c) ==
    IF c.hour + 1 < HoursPerDay THEN [c EXCEPT !.hour = @ + 1]
    ELSE [day |-> c.day + 1, hour |-> 0]

now_hour_TwelveHour(c) == c.hour % 12

\* datetime.now().hour
now_hour(c) == c.hour

\* The rows of a sweep for which it invoked send_daily_reminder.
InvokedRows(t) ==
    {t.preferences_list[i] : i \in
        {i \in DOMAIN t.preferences_list :
            \E j \in DOMAIN t.invoked : t.invoked[j] = t.preferences_list[i].user_id}}

\* Invocations of the reminder path by sweep t, begun at clock time c.
Reminders(t, c) ==
    {[user_id |-> row.user_id, day |-> c.day, hour |-> c.hour,
      time |-> row.daily_reminder_time] : row \in InvokedRows(t)}

\* The wall clock reaches minute 0 of the next hour and the running scheduler
\* fires the sweep job: CronTrigger(minute=0) fires once in every hour.  The
\* sweep of the hour before has finished; what it did is added to the record.
ClockTick ==
    /\ Quiescent
    /\ scheduler.state = "running"
    /\ NextClock(clock).day < MaxDays
    /\ clock' = NextClock(clock)
    /\ reminded' = reminded \cup Reminders(tick, clock)
    /\ waiting' = [u \in UserIds |->
          IF ~RemindersEnabled(u) THEN NotWaiting(u)
          ELSE IF \/ \E row \in InvokedRows(tick) : row.user_id = u
                  \/ waiting[u].row # FirstPreferences(u)
               THEN [row |-> FirstPreferences(u), hours |-> 1]
               ELSE [waiting[u] EXCEPT
                        !.hours = IF @ < HoursPerDay THEN @ + 1 ELSE @]]
    /\ \E i \in DOMAIN scheduler.jobs, order \in Orderings(EnabledPreferences) :
          /\ scheduler.jobs[i].func = "check_and_send_reminders"
          /\ tick' = [IdleTick EXCEPT !.pc = "loop",
                         !.hour = now_hour(clock'),
                         !.minute = scheduler.jobs[i].minute,
                         !.preferences_list = order, !.session = "open"]
    /\ UNCHANGED <<templates, template_versions, telegram_bot, smtp_credentials,
                   telegram_chat_id, notification_preferences, posts,
                   delivery_logs, call, n_calls, n_updates, scheduler, in_flight,
                   background_tasks, response>>

\* Every adapter call and every commit goes through.
OkEnv == [tg |-> "ok", em |-> "ok", db |-> TRUE]

DayTimeStrings ==
    {<<<<0, 9>>, <<0, 5>>, <<0, 0>>>>, <<<<0, 9>>, <<2, 0>>, <<0, 0>>>>,
     <<<<2, 3>>, <<0, 0>>, <<0, 0>>>>}

\* Requests that switch the reminder on at one of the times.
DayRequests ==
    [receive_email_notifications : {{}},
     receive_telegram_notifications : {{}},
     daily_reminder_enabled : {{TRUE}},
     daily_reminder_time : {{t} : t \in DayTimeStrings},
     telegram_chat_id : {{}}]

\* ----------------------------------------------------------- post endpoints
OwnedPost_AnyOwner(user_id, post_id) == post_id \in DOMAIN posts

\* db.query(Post).filter(Post.id == post_id, Post.user_id == user_id).first()
OwnedPost(user_id, post_id) ==
    post_id \in DOMAIN posts /\ posts[post_id].user_id = user_id

\* The integer primary key the table gives a new row: one above the largest.
NewPostId ==
    IF DOMAIN posts = {} THEN 1
    ELSE 1 + CHOOSE m \in DOMAIN posts : \A p \in DOMAIN posts : p <= m

\* POST /posts/draft
save_draft(user_id) ==
    /\ Quiescent
    /\ NewPostId <= MaxPosts
    /\ posts' = [p \in DOMAIN posts \cup {NewPostId} |->
                    IF p = NewPostId
                    THEN [user_id |-> user_id, status |-> "draft"]
                    ELSE posts[p]]
    /\ response' = Response("save_draft", [user_id |-> user_id], 201,
                            [status |-> "success", draft_id |-> NewPostId])
    /\ UNCHANGED <<clock, waiting, reminded, templates, template_versions, telegram_bot, smtp_credentials, telegram_chat_id,
                   notification_preferences, delivery_logs, call, tick, n_calls,
                   n_updates, scheduler, in_flight, background_tasks>>

NotDraft_Never(post) == FALSE

\* if post.status != "draft"
NotDraft(post) == post.status # "draft"

\* PATCH /posts/{post_id}/publish
publish_draft(user_id, post_id) ==
    /\ Quiescent
    /\ IF ~OwnedPost(user_id, post_id)
       THEN /\ response' = Response("publish_draft", [user_id |-> user_id, post_id |-> post_id], 404, [detail |-> "Post not found"])
            /\ posts' = posts
       ELSE IF NotDraft(posts[post_id])
       THEN /\ response' = Response("publish_draft", [user_id |-> user_id, post_id |-> post_id], 400,
                                    [detail |-> "Only draft posts can be published"])
            /\ posts' = posts
       ELSE /\ posts' = [posts EXCEPT ![post_id].status = "published"]
            /\ response' = Response("publish_draft", [user_id |-> user_id, post_id |-> post_id], 200,
                                    [id |-> post_id, status |-> "published"])
    /\ UNCHANGED <<clock, waiting, reminded, templates, template_versions, telegram_bot, smtp_credentials, telegram_chat_id,
                   notification_preferences, delivery_logs, call, tick, n_calls,
                   n_updates, scheduler, in_flight, background_tasks>>

\* Flush of db.delete(post): Post.delivery_logs has no delete cascade, so the
\* rows of the relationship are detached by setting their post_id to NULL.
Dissociate(logs, post_id) ==
    [i \in DOMAIN logs |->
        IF logs[i].post_id = post_id THEN [logs[i] EXCEPT !.post_id = NullId]
        ELSE logs[i]]

\* db.delete(post); db.commit()
DeletePost(post_id) ==
    /\ posts' = [p \in DOMAIN posts \ {post_id} |-> posts[p]]
    /\ delivery_logs' = Dissociate(delivery_logs, post_id)

\* DELETE /posts/{post_id}
delete_post(user_id, post_id) ==
    /\ Quiescent
    /\ IF ~OwnedPost(user_id, post_id)
       THEN /\ response' = Response("delete_post", [user_id |-> user_id, post_id |-> post_id], 404, [detail |-> "Post not found"])
            /\ UNCHANGED <<posts, delivery_logs>>
       ELSE /\ DeletePost(post_id)
            /\ response' = Response("delete_post", [user_id |-> user_id, post_id |-> post_id], 204, [detail |-> None])
    /\ UNCHANGED <<clock, waiting, reminded, templates, template_versions, telegram_bot, smtp_credentials, telegram_chat_id,
                   notification_preferences, call, tick, n_calls, n_updates,
                   scheduler, in_flight, background_tasks>>

CallbackActions == {"approve", "regenerate", "delete", "share"}

\* POST /notifications/telegram/callback with data "<action>_<post_id>" sent
\* from chat chat_id.  The user is the first row whose telegram_chat_id
\* matches; a callback for no user or no owned post answers ok and does nothing.
telegram_callback(chat_id, action, post_id) ==
    /\ Quiescent
    /\ LET matching == {u \in UserIds : telegram_chat_id[u] = chat_id}
       IN  IF matching = {}
           THEN /\ response' = Response("telegram_callback",
                          [chat_id |-> chat_id, action |-> action, post_id |-> post_id], 200, [ok |-> TRUE])
                /\ UNCHANGED <<posts, delivery_logs>>
           ELSE \E user \in matching :
                  IF ~OwnedPost(user, post_id)
                  THEN /\ response' = Response("telegram_callback",
                          [chat_id |-> chat_id, action |-> action, post_id |-> post_id], 200, [ok |-> TRUE])
                       /\ UNCHANGED <<posts, delivery_logs>>
                  ELSE /\ response' = Response("telegram_callback",
                          [chat_id |-> chat_id, action |-> action, post_id |-> post_id], 200,
                                          [ok |-> TRUE, response |-> action])
                       /\ CASE action = "approve" ->
                                 /\ posts' = [posts EXCEPT ![post_id].status = "published"]
                                 /\ UNCHANGED delivery_logs
                            [] action = "delete" -> DeletePost(post_id)
                            [] OTHER -> UNCHANGED <<posts, delivery_logs>>
    /\ UNCHANGED <<clock, waiting, reminded, templates, template_versions, telegram_bot, smtp_credentials, telegram_chat_id,
                   notification_preferences, call, tick, n_calls, n_updates,
                   scheduler, in_flight, background_tasks>>

\* ------------------------------------------------- notification endpoints
TaskFor_AlwaysEmail(user_id, post_id, channel) ==
    [user_id |-> user_id, post_id |-> post_id, channel |-> "email"]

\* send_notification_task: the closure over current_user.id, post and
\* request.channel that is handed to BackgroundTasks.
TaskFor(user_id, post_id, channel) ==
    [user_id |-> user_id, post_id |-> post_id, channel |-> channel]

\* POST /notifications/posts/{post_id}/send
send_post_notification_endpoint(user_id, post_id, channel) ==
    /\ Quiescent
    /\ LET request == [user_id |-> user_id, post_id |-> post_id, channel |-> channel]
       IN  IF ~OwnedPost(user_id, post_id)
           THEN /\ response' = Response("send_post_notification", request, 404,
                                        [detail |-> "Post not found"])
                /\ UNCHANGED background_tasks
           ELSE IF channel \notin {"email", "telegram"}
           THEN /\ response' = Response("send_post_notification", request, 400,
                                        [detail |-> "Invalid channel"])
                /\ UNCHANGED background_tasks
           ELSE /\ background_tasks' =
                      Append(background_tasks, TaskFor(user_id, post_id, channel))
                /\ response' = Response("send_post_notification", request, 200,
                                        [status |-> "queued"])
    /\ UNCHANGED <<clock, waiting, reminded, templates, template_versions, telegram_bot, smtp_credentials, telegram_chat_id,
                   notification_preferences, posts, delivery_logs, call, tick,
                   n_calls, n_updates, scheduler, in_flight>>

\* After the response is sent the queued task runs: it awaits
\* send_post_notification with the arguments it captured.
RunBackgroundTask(env) ==
    /\ background_tasks # <<>>
    /\ LET task == Head(background_tasks)
       IN  SendPostNotification(task.user_id, task.post_id, task.channel, env)
    /\ background_tasks' = Tail(background_tasks)

LogsOf_Everyone(user_id) == DOMAIN delivery_logs

\* db.query(DeliveryLog).filter(DeliveryLog.user_id == current_user.id)
LogsOf(user_id) ==
    {i \in DOMAIN delivery_logs : delivery_logs[i].user_id = user_id}

\* .order_by(DeliveryLog.created_at.desc()): the row written last comes first.
RECURSIVE NewestFirst(_)
NewestFirst(S) ==
    IF S = {} THEN <<>>
    ELSE LET newest == CHOOSE i \in S : \A j \in S : j <= i
         IN  <<delivery_logs[newest]>> \o NewestFirst(S \ {newest})

\* .offset(offset).limit(limit).all()
Page(rows, offset, limit) ==
    SubSeq(rows, offset + 1,
           IF offset + limit < Len(rows) THEN offset + limit ELSE Len(rows))

get_delivery_logs(user_id, page, limit) ==
    LET offset == (page - 1) * limit
    IN  [logs |-> Page(NewestFirst(LogsOf(user_id)), offset, limit),
         total |-> Cardinality(LogsOf(user_id)),
         page |-> page, limit |-> limit]

Pages == {1, 2}
Limits == {1, 2}

\* GET /notifications/logs
GetDeliveryLogs(user_id, page, limit) ==
    /\ Quiescent
    /\ response' = Response("get_delivery_logs",
                            [user_id |-> user_id, page |-> page, limit |-> limit],
                            200, get_delivery_logs(user_id, page, limit))
    /\ UNCHANGED <<clock, waiting, reminded, templates, template_versions, telegram_bot, smtp_credentials, telegram_chat_id,
                   notification_preferences, posts, delivery_logs, call, tick,
                   n_calls, n_updates, scheduler, in_flight, background_tasks>>

\* ---------------------------------------------------- scheduler start/stop
\* The job start() registers: check_and_send_reminders on CronTrigger(minute=0).
SweepJob ==
    [id |-> "daily_reminders_check", func |-> "check_and_send_reminders",
     minute |-> 0]

\* scheduler.add_job(..., id=job.id, replace_existing=True)
add_job(jobs, job) ==
    IF \E i \in DOMAIN jobs : jobs[i].id = job.id
    THEN [i \in DOMAIN jobs |-> IF jobs[i].id = job.id THEN job ELSE jobs[i]]
    ELSE Append(jobs, job)

NotRunning_Always(is_running) == TRUE

\* if not self.is_running
NotRunning(is_running) == ~is_running

\* start(): add_job comes first; scheduler.start() raises when the scheduler
\* is already running, and then is_running is not assigned.
start ==
    /\ NotRunning(scheduler.is_running) => scheduler.starts < MaxStarts
    /\ scheduler' =
          IF NotRunning(scheduler.is_running)
          THEN IF scheduler.state = "stopped"
               THEN [scheduler EXCEPT
                        !.jobs = add_job(@, SweepJob), !.state = "running",
                        !.is_running = TRUE, !.raised = None, !.op = "start",
                        !.starts = @ + 1]
               ELSE [scheduler EXCEPT
                        !.jobs = add_job(@, SweepJob),
                        !.raised = "SchedulerAlreadyRunningError",
                        !.op = "start", !.starts = @ + 1]
          ELSE [scheduler EXCEPT !.raised = None, !.op = "start"]
    /\ UNCHANGED <<clock, waiting, reminded, templates, template_versions, telegram_bot, smtp_credentials, telegram_chat_id,
                   notification_preferences, posts, delivery_logs, call, tick,
                   n_calls, n_updates, in_flight, background_tasks, response>>

shutdown_KeepsJobsRunning(t) == t

\* scheduler.shutdown() cancels the job coroutine that is suspended in an
\* await: CancelledError passes both `except Exception` clauses of
\* check_and_send_reminders and its finally clause closes the session.
shutdown(t) ==
    IF t.pc = "loop"
    THEN [t EXCEPT !.pc = "done", !.session = "closed", !.cancelled = TRUE]
    ELSE t

\* stop(): shutdown empties the in-memory job store.
stop ==
    /\ scheduler' =
          IF scheduler.is_running
          THEN [scheduler EXCEPT
                   !.jobs = <<>>, !.state = "stopped", !.is_running = FALSE,
                   !.raised = None, !.op = "stop"]
          ELSE [scheduler EXCEPT !.raised = None, !.op = "stop"]
    /\ tick' = IF scheduler.is_running THEN shutdown(tick) ELSE tick
    /\ UNCHANGED <<clock, waiting, reminded, templates, template_versions, telegram_bot, smtp_credentials, telegram_chat_id,
                   notification_preferences, posts, delivery_logs, call,
                   n_calls, n_updates, in_flight, background_tasks, response>>

\* The running scheduler fires a registered sweep job at the job's minute.
JobFires(current_hour, query_ok) ==
    /\ scheduler.state = "running"
    /\ \E i \in DOMAIN scheduler.jobs :
          /\ scheduler.jobs[i].func = "check_and_send_reminders"
          /\ TickStart(current_hour, scheduler.jobs[i].minute, query_ok)

\* ---------------------------------------------------------------- templates
Template(name, category, tone, structure, example, prompt) ==
    [name |-> name, category |-> category, tone |-> tone,
     structure |-> structure, example |-> example, prompt |-> prompt]

TemplateVersion(template_id, version, prompt, structure, tone) ==
    [template_id |-> template_id, version |-> version, prompt |-> prompt,
     structure |-> structure, tone |-> tone]

\* The integer primary key the table gives a new row: one above the largest.
NewTemplateId ==
    IF DOMAIN templates = {} THEN 1
    ELSE 1 + CHOOSE m \in DOMAIN templates : \A t \in DOMAIN templates : t <= m

\* TemplateService.create_template: the template row and its version 1,
\* committed together.
create_template(template_data) ==
    /\ NewTemplateId <= MaxTemplates
    /\ Len(template_versions) < MaxVersionRows
    /\ templates' = [t \in DOMAIN templates \cup {NewTemplateId} |->
                        IF t = NewTemplateId THEN template_data ELSE templates[t]]
    /\ template_versions' = Append(template_versions,
          TemplateVersion(NewTemplateId, 1, template_data.prompt,
                          template_data.structure, template_data.tone))
    /\ UNCHANGED <<clock, waiting, reminded, telegram_bot, smtp_credentials, telegram_chat_id,
                   notification_preferences, posts, delivery_logs, call, tick,
                   n_calls, n_updates, scheduler, in_flight, background_tasks,
                   response>>

\* `data.f is not None`: the field is written whether or not it differs.
Written(field, old) == IF field = {} THEN old ELSE CHOOSE v \in field : TRUE

\* `data.f is not None and data.f != template.f`
Differs(field, old) == field # {} /\ field # {old}

\* version_needed: tone, structure or prompt is given and differs.
version_needed(template, template_data) ==
    \/ Differs(template_data.tone, template.tone)
    \/ Differs(template_data.structure, template.structure)
    \/ Differs(template_data.prompt, template.prompt)

\* The template row after the field assignments of update_template.
Updated(template, template_data) ==
    Template(Written(template_data.name, template.name),
             Written(template_data.category, template.category),
             Written(template_data.tone, template.tone),
             Written(template_data.structure, template.structure),
             Written(template_data.example, template.example),
             Written(template_data.prompt, template.prompt))

VersionsOf(template_id) ==
    {i \in DOMAIN template_versions : template_versions[i].template_id = template_id}

latest_version_Zero(template_id) == 0

\* db.query(func.max(TemplateVersion.version)).filter(template_id).scalar() or 0
latest_version(template_id) ==
    IF VersionsOf(template_id) = {} THEN 0
    ELSE LET newest == CHOOSE i \in VersionsOf(template_id) :
                          \A j \in VersionsOf(template_id) :
                             template_versions[j].version <= template_versions[i].version
         IN  template_versions[newest].version

\* TemplateService.update_template.  An unknown id returns None and writes
\* nothing.
update_template(template_id, template_data) ==
    /\ Len(template_versions) < MaxVersionRows
    /\ IF template_id \notin DOMAIN templates
       THEN UNCHANGED <<templates, template_versions>>
       ELSE LET template == templates[template_id]
                new == Updated(template, template_data)
            IN  /\ templates' = [templates EXCEPT ![template_id] = new]
                /\ template_versions' =
                      IF version_needed(template, template_data)
                      THEN Append(template_versions,
                              TemplateVersion(template_id,
                                              latest_version(template_id) + 1,
                                              new.prompt, new.structure, new.tone))
                      ELSE template_versions
    /\ UNCHANGED <<clock, waiting, reminded, telegram_bot, smtp_credentials, telegram_chat_id,
                   notification_preferences, posts, delivery_logs, call, tick,
                   n_calls, n_updates, scheduler, in_flight, background_tasks,
                   response>>

\* Flush of db.delete(template): Template.versions cascades "all,
\* delete-orphan", so the template's version rows are deleted with it.
RECURSIVE WithoutTemplate(_, _)
WithoutTemplate(rows, template_id) ==
    IF rows = <<>> THEN <<>>
    ELSE IF Head(rows).template_id = template_id
         THEN WithoutTemplate(Tail(rows), template_id)
         ELSE <<Head(rows)>> \o WithoutTemplate(Tail(rows), template_id)

\* TemplateService.delete_template.  An unknown id returns False.
delete_template(template_id) ==
    /\ IF template_id \notin DOMAIN templates
       THEN UNCHANGED <<templates, template_versions>>
       ELSE /\ templates' = [t \in DOMAIN templates \ {template_id} |-> templates[t]]
            /\ template_versions' = WithoutTemplate(template_versions, template_id)
    /\ UNCHANGED <<clock, waiting, reminded, telegram_bot, smtp_credentials, telegram_chat_id,
                   notification_preferences, posts, delivery_logs, call, tick,
                   n_calls, n_updates, scheduler, in_flight, background_tasks,
                   response>>

Tones == {"Professional", "Casual"}
Opt(S) == {{}} \cup {{v} : v \in S}

\* Bodies of POST /templates.
CreateRequests ==
    {Template("Case Study", "Business", "Professional", "Hook-Problem-Solution",
              None, "prompt A")}

Structures == {"Hook-Problem-Solution", "Story-Lesson"}

\* Bodies of PUT /templates/{id}: every field is optional.
UpdateRequests ==
    [name : Opt({"Renamed"}), category : {{}}, tone : Opt(Tones),
     structure : Opt(Structures), example : {{}}, prompt : Opt({"prompt B"})]

\* The channel adapters' outcomes that a send on `channel` can observe.
EnvsFor(channel) ==
    {e \in Envs : /\ (channel # "telegram" \/ ~telegram_bot) => e.tg = "ok"
                  /\ (channel # "email" \/ ~smtp_credentials) => e.em = "ok"}

Next ==
    \/ \E u \in UserIds \cup {NoSuchUser}, p \in PostIds,
          c \in Channels \cup {InvalidChannel} :
          \E env \in EnvsFor(c) :
             /\ n_calls < MaxCalls
             /\ SendPostNotification(u, p, c, env)
             /\ UNCHANGED background_tasks
    \/ \E u \in UserIds \cup {NoSuchUser}, p \in PostIds \cup {NoSuchPost},
          c \in Channels, n \in 0..MaxRetries :
          RetrySend(u, p, c, n)
    \/ \E env \in EnvsFor(call.channel), db_ok2 \in BOOLEAN : RetryAttempt(env, db_ok2)
    \/ RetrySleep
    \/ \E s \in ChannelRequests :
          n_updates < MaxUpdates /\ update_notification_settings(1, s)

Spec == Init /\ [][Next]_vars

\* Direct calls of the reminder path, with user 1 changing settings.
ReminderNext ==
    \/ \E u \in UserIds \cup {NoSuchUser}, env \in Envs : SendDailyReminder(u, env)
    \/ \E s \in ReminderRequests :
          n_updates < MaxSweepUpdates /\ update_notification_settings(1, s)
    \/ \E u \in UserIds : get_notification_settings(u)

ReminderSpec == Init /\ [][ReminderNext]_vars

\* The hourly sweep, with every user setting reminder flag and time.
TickNext ==
    \/ \E h \in TickHours, m \in TickMinutes, ok \in BOOLEAN : TickStart(h, m, ok)
    \/ \E env \in Envs : TickUser(env)
    \/ TickEnd
    \/ \E u \in UserIds, s \in TimeRequests :
          n_updates < MaxSweepUpdates /\ update_notification_settings(u, s)

TickSpec == Init /\ [][TickNext]_vars

\* The scheduler started and stopped while its job fires and user 1 changes
\* the reminder settings.
SchedulerNext ==
    \/ start
    \/ stop
    \/ \E h \in TickHours, query_ok \in BOOLEAN : JobFires(h, query_ok)
    \/ \E env \in Envs : TickUser(env)
    \/ TickEnd
    \/ \E s \in TimeRequests :
          n_updates < MaxUpdates /\ update_notification_settings(1, s)

SchedulerSpec == Init /\ [][SchedulerNext]_vars

\* The manual send with its background task while user 1 changes the
\* channel settings.
SendNext ==
    \/ \E u \in UserIds, p \in PostIds \cup {NoSuchPost},
          c \in Channels \cup {InvalidChannel} :
          /\ n_calls + Len(background_tasks) < MaxTasks
          /\ send_post_notification_endpoint(u, p, c)
    \/ \E env \in Envs : RunBackgroundTask(env)
    \/ \E s \in ChannelRequests :
          n_updates < MaxUpdates /\ update_notification_settings(1, s)

SendSpec == Init /\ [][SendNext]_vars

\* GET and PUT settings requests of both users, served concurrently.
SettingsNext ==
    \/ \E u \in UserIds : BeginSettings("get", u, NoSettings)
    \/ \E u \in UserIds, s \in ChatRequests : BeginSettings("put", u, s)
    \/ \E r \in in_flight : CommitSettings(r)

SettingsSpec == Init /\ [][SettingsNext]_vars

\* The endpoints that write posts, and user 1 linking a chat.
PublishNext ==
    \/ \E u \in UserIds : save_draft(u)
    \/ \E u \in UserIds, p \in 1..MaxPosts : publish_draft(u, p)
    \/ \E u \in UserIds, p \in 1..MaxPosts : delete_post(u, p)
    \/ \E chat_id \in ChatIds, action \in CallbackActions, p \in 1..MaxPosts :
          telegram_callback(chat_id, action, p)
    \/ \E s \in ChatRequests :
          n_updates < MaxUpdates /\ update_notification_settings(1, s)

PublishSpec == Init /\ [][PublishNext]_vars

\* The endpoints that write posts, a manual send with its background task,
\* and user 1 linking a chat.
PostsNext ==
    \/ \E u \in UserIds : save_draft(u)
    \/ \E u \in UserIds, p \in PostIds \cup {NoSuchPost} : publish_draft(u, p)
    \/ \E u \in UserIds, p \in PostIds \cup {NoSuchPost} : delete_post(u, p)
    \/ \E chat_id \in ChatIds, action \in CallbackActions,
          p \in PostIds \cup {NoSuchPost} : telegram_callback(chat_id, action, p)
    \/ \E u \in UserIds, p \in PostIds \cup {NoSuchPost} :
          /\ n_calls + Len(background_tasks) < MaxCalls
          /\ send_post_notification_endpoint(u, p, "email")
    \/ \E env \in EnvsFor("email") : RunBackgroundTask(env)
    \/ \E s \in ChatRequests :
          n_updates < MaxUpdates /\ update_notification_settings(1, s)

PostsSpec == Init /\ [][PostsNext]_vars

\* Manual sends by both users and the delivery-log query.
LogsNext ==
    \/ \E u \in UserIds : save_draft(u)
    \/ \E u \in UserIds, p \in PostIds \cup {NoSuchPost}, c \in Channels :
          /\ n_calls + Len(background_tasks) < MaxTasks
          /\ send_post_notification_endpoint(u, p, c)
    \/ \E env \in Envs : RunBackgroundTask(env)
    \/ \E u \in UserIds, page \in Pages, limit \in Limits :
          GetDeliveryLogs(u, page, limit)

LogsSpec == Init /\ [][LogsNext]_vars

\* Templates created, updated and deleted, one request at a time.
TemplateNext ==
    \/ \E template_data \in CreateRequests : create_template(template_data)
    \/ \E t \in 1..MaxTemplates, template_data \in UpdateRequests :
          update_template(t, template_data)
    \/ \E t \in 1..MaxTemplates : delete_template(t)

TemplateSpec == Init /\ [][TemplateNext]_vars

\* The started scheduler over the hours of MaxDays days, with user 1
\* setting the reminder time.
DayNext ==
    \/ start
    \/ ClockTick
    \/ TickUser(OkEnv)
    \/ TickEnd
    \/ \E s \in DayRequests :
          n_updates < MaxSweepUpdates /\ update_notification_settings(1, s)

DaySpec == Init /\ [][DayNext]_vars

\* Sender ids of callbacks: a chat that users link, and one nobody links.
SenderIds == ChatIds \cup {"456"}

\* Requests that link a chat and nothing else.
LinkRequests == {s \in ChatRequests : s.receive_email_notifications = {}}

\* Button presses arriving from chats while both users write drafts and
\* link chats.
CallbackNext ==
    \/ \E u \in UserIds : save_draft(u)
    \/ \E chat_id \in SenderIds, action \in CallbackActions, p \in 1..MaxPosts :
          telegram_callback(chat_id, action, p)
    \/ \E u \in UserIds, s \in LinkRequests :
          n_updates < MaxSweepUpdates /\ update_notification_settings(u, s)

CallbackSpec == Init /\ [][CallbackNext]_vars

\* Retry calls alone, with user 1 changing settings while a call sleeps.
RetryNext ==
    \/ \E u \in UserIds \cup {NoSuchUser}, p \in PostIds \cup {NoSuchPost},
          c \in Channels, n \in 0..MaxRetries :
          RetrySend(u, p, c, n)
    \/ \E env \in EnvsFor(call.channel), db_ok2 \in BOOLEAN : RetryAttempt(env, db_ok2)
    \/ RetrySleep
    \/ \E s \in ChannelRequests :
          n_updates < MaxUpdates /\ update_notification_settings(1, s)

\* The event loop resumes a sleeping retry and every adapter call returns.
FairSpec ==
    /\ Init /\ [][RetryNext]_vars
    /\ WF_vars(RetrySleep)
    /\ WF_vars(\E env \in EnvsFor(call.channel), db_ok2 \in BOOLEAN :
                  RetryAttempt(env, db_ok2))

\* ------------------------------------------------------------------ claims
\* What the claims read off a step or a state.
FlagOff(user_id, channel) ==
    \E r \in notification_preferences :
        /\ r.user_id = user_id
        /\ \/ channel = "email" /\ ~r.receive_email_notifications
           \/ channel = "telegram" /\ ~r.receive_telegram_notifications

\* This step is a direct call of send_post_notification.
SendStep == call'.kind = "send" /\ n_calls' = n_calls + 1

\* This step is one attempt of retry_send.
AttemptStep ==
    /\ call.kind = "retry" /\ call'.kind = "retry"
    /\ Len(call'.attempt_results) = Len(call.attempt_results) + 1

LastResult(c) == c.attempt_results[Len(c.attempt_results)]

\* The rows added since the current call began.
CallRows == SubSeq(delivery_logs, call.log_start + 1, Len(delivery_logs))

CountStatus(rows, status) == Cardinality({i \in 1..Len(rows) : rows[i].status = status})

RetryReturned == call.kind = "retry" /\ call.pc = "returned" /\ call.attempt_results # <<>>

\* Every attempt of the call reached the channel step (user found, not disabled).
AllAttemptsSent == \A i \in 1..Len(call.paths) : call.paths[i] = "sent"

\* C1: a send_post_notification call that finds the user, is not stopped by a
\* disabled channel and returns appends exactly one row for (user, post,
\* channel); the row is `delivered` iff the call returned success, otherwise
\* `failed` with the returned error.  Holds for direct calls and for each
\* attempt made by retry_send (whose row is followed only by a `retried` row).
C1_OneRowPerSend ==
    [][/\ (SendStep /\ call'.pc = "returned" /\ call'.user_id \in UserIds
              /\ ~FlagOff(call'.user_id, call'.channel))
          => delivery_logs' = Append(delivery_logs,
                 [user_id |-> call'.user_id, post_id |-> call'.post_id,
                  channel |-> call'.channel,
                  status |-> IF call'.success THEN "delivered" ELSE "failed",
                  error_message |-> call'.error])
       /\ (AttemptStep /\ call'.pc # "raised" /\ call.user_id \in UserIds
              /\ ~FlagOff(call.user_id, call.channel))
          => /\ Len(delivery_logs') > Len(delivery_logs)
             /\ SubSeq(delivery_logs', 1, Len(delivery_logs) + 1) =
                   Append(delivery_logs,
                     [user_id |-> call.user_id, post_id |-> call.post_id,
                      channel |-> call.channel,
                      status |-> IF LastResult(call').success THEN "delivered" ELSE "failed",
                      error_message |-> LastResult(call').error])
             /\ \A i \in (Len(delivery_logs) + 2)..Len(delivery_logs') :
                   delivery_logs'[i].status = "retried"
      ]_vars

C1_Witness ==
    /\ call.kind = "send" /\ call.pc = "returned" /\ call.success
    /\ call.channel = "telegram"
    /\ CallRows = <<[user_id |-> call.user_id, post_id |-> call.post_id,
                     channel |-> "telegram", status |-> "delivered",
                     error_message |-> None]>>

\* C2: when the user's preference row has the requested channel's flag off,
\* send_post_notification returns (false, "<Channel> notifications disabled"),
\* invokes no adapter and leaves the delivery log as it was.
C2_DisabledShortCircuit ==
    [][/\ (SendStep /\ call'.user_id \in UserIds /\ FlagOff(call'.user_id, call'.channel))
          => /\ call'.pc = "returned" /\ ~call'.success
             /\ call'.error = (IF call'.channel = "email"
                               THEN "Email notifications disabled"
                               ELSE "Telegram notifications disabled")
             /\ call'.adapter_calls = <<>>
             /\ delivery_logs' = delivery_logs
       /\ (AttemptStep /\ call.user_id \in UserIds /\ FlagOff(call.user_id, call.channel))
          => /\ ~LastResult(call').success
             /\ LastResult(call').error = (IF call.channel = "email"
                                           THEN "Email notifications disabled"
                                           ELSE "Telegram notifications disabled")
             /\ call'.adapter_calls = call.adapter_calls
             /\ delivery_logs' = delivery_logs
      ]_vars

C2_Witness ==
    /\ call.kind = "send" /\ call.pc = "returned" /\ call.channel = "telegram"
    /\ FlagOff(call.user_id, "telegram") /\ ChatConfigured(call.user_id)
    /\ call.error = "Telegram notifications disabled"
    /\ call.adapter_calls = <<>>
    /\ CallRows = <<>>

\* C3: a retry_send whose first k attempts fail at the channel and whose next
\* attempt succeeds returns success and has added exactly k `failed` rows, one
\* `delivered` row, and one `retried` row iff k > 0.
C3_RetryRecovers ==
    (/\ RetryReturned /\ AllAttemptsSent
     /\ LastResult(call).success
     /\ \A i \in 1..(Len(call.attempt_results) - 1) : ~call.attempt_results[i].success)
    => LET k == Len(call.attempt_results) - 1
       IN  /\ call.success
           /\ k < call.max_retries
           /\ CountStatus(CallRows, "failed") = k
           /\ CountStatus(CallRows, "delivered") = 1
           /\ CountStatus(CallRows, "retried") = (IF k > 0 THEN 1 ELSE 0)
           /\ Len(CallRows) = k + 1 + (IF k > 0 THEN 1 ELSE 0)

C3_Witness ==
    /\ RetryReturned /\ call.success
    /\ Len(call.attempt_results) = 3
    /\ Len(CallRows) = 4
    /\ CountStatus(CallRows, "retried") = 1

\* C4: retry_send with max_retries = n >= 1 on an enabled channel whose sends
\* all fail makes exactly n attempts, adds exactly n `failed` rows and no
\* `delivered` or `retried` row, and returns failure with the last attempt's error.
C4_RetryExhausted ==
    (/\ RetryReturned /\ AllAttemptsSent
     /\ \A i \in 1..Len(call.attempt_results) : ~call.attempt_results[i].success)
    => /\ call.max_retries >= 1
       /\ Len(call.attempt_results) = call.max_retries
       /\ Len(CallRows) = call.max_retries
       /\ \A i \in 1..Len(CallRows) :
             /\ CallRows[i].status = "failed"
             /\ CallRows[i].error_message = call.attempt_results[i].error
       /\ ~call.success
       /\ call.error = "Failed after " \o ToString(call.max_retries) \o " attempts: "
                          \o LastResult(call).error

C4_Witness ==
    /\ RetryReturned /\ ~call.success /\ AllAttemptsSent
    /\ call.max_retries = 3 /\ Len(CallRows) = 3
    /\ call.attempt_results[1].error # call.attempt_results[3].error

C6_NoRowDefaults ==
    [][(SendStep /\ call'.pc = "returned" /\ call'.user_id \in UserIds
           /\ ~\E r \in notification_preferences : r.user_id = call'.user_id)
       => /\ call'.channel = "email"
             => Len(call'.adapter_calls) = 1 /\ call'.adapter_calls[1].adapter = "email"
          /\ call'.channel = "telegram"
             => /\ ~call'.success
                /\ call'.error = "Telegram notifications disabled"
                /\ call'.adapter_calls = <<>>
                /\ delivery_logs' = delivery_logs
      ]_vars
\* This step is a direct call of send_daily_reminder.
ReminderStep == call'.kind = "reminder" /\ n_calls' = n_calls + 1

\* The user's row has daily reminders switched on.
ReminderOn(user_id) ==
    \E r \in notification_preferences : r.user_id = user_id /\ r.daily_reminder_enabled

ChatSucceeded(c) ==
    /\ Len(c.adapter_calls) >= 1
    /\ c.adapter_calls[1].adapter = "telegram"
    /\ c.adapter_calls[1].success

EmailCalls(c) == {i \in 1..Len(c.adapter_calls) : c.adapter_calls[i].adapter = "email"}

\* C7: send_daily_reminder with reminders and email enabled, when chat was not
\* attempted or failed: the email adapter is invoked once, its result is the
\* call's result, and that outcome, delivered or failed, is added to the log
\* as a row with null post id.
C7_EmailFallbackLogged ==
    [][(/\ ReminderStep /\ call'.pc = "returned"
        /\ ReminderOn(call'.user_id) /\ ~FlagOff(call'.user_id, "email")
        /\ ~ChatSucceeded(call'))
       => /\ Cardinality(EmailCalls(call')) = 1
          /\ \A i \in EmailCalls(call') :
                /\ call'.adapter_calls[i].success = call'.success
                /\ call'.adapter_calls[i].error = call'.error
          /\ delivery_logs' = Append(delivery_logs,
                [user_id |-> call'.user_id, post_id |-> NullId, channel |-> "email",
                 status |-> IF call'.success THEN "delivered" ELSE "failed",
                 error_message |-> call'.error])
      ]_vars

\* C8: send_daily_reminder with reminders on, chat on and a chat id configured
\* invokes the chat adapter first; when that attempt succeeds the email adapter
\* is not invoked, and the call returns success having added exactly one
\* `delivered` row with channel telegram and null post id.
C8_ChatFirst ==
    [][(/\ ReminderStep
        /\ ReminderOn(call'.user_id) /\ ~FlagOff(call'.user_id, "telegram")
        /\ telegram_chat_id[call'.user_id] \notin {None, ""})
       => /\ Len(call'.adapter_calls) >= 1
          /\ call'.adapter_calls[1].adapter = "telegram"
          /\ call'.adapter_calls[1].success
             => /\ Len(call'.adapter_calls) = 1
                /\ call'.pc = "returned"
                   => /\ call'.success
                      /\ delivery_logs' = Append(delivery_logs,
                            [user_id |-> call'.user_id, post_id |-> NullId,
                             channel |-> "telegram", status |-> "delivered",
                             error_message |-> None])
      ]_vars

C8_Witness ==
    /\ call.kind = "reminder" /\ call.pc = "returned" /\ call.success
    /\ ChatSucceeded(call)
    /\ ~FlagOff(call.user_id, "email")
    /\ Len(CallRows) = 1
    /\ CallRows[1].channel = "telegram" /\ CallRows[1].post_id = NullId

\* The sweep's loop has just run to its end.
SweepEnds == tick.pc = "loop" /\ tick'.pc = "done"

Invocations(t, user_id) == {i \in 1..Len(t.invoked) : t.invoked[i] = user_id}

InWindow(r, h, m) ==
    /\ r.daily_reminder_time.hour = h
    /\ r.daily_reminder_time.minute - m < 15
    /\ m - r.daily_reminder_time.minute < 15

\* C9: in a sweep at wall-clock time (h, m) the reminder path is invoked for a
\* preference row with time (H, M) iff daily_reminder_enabled, H = h and
\* |M - m| < 15; a row set to 09:05 fires exactly for the sweeps at 09:00..09:19.
C9_TickWindow ==
    [][SweepEnds
       => /\ \A r \in notification_preferences :
                Invocations(tick', r.user_id) # {}
                   <=> (r.daily_reminder_enabled /\ InWindow(r, tick.hour, tick.minute))
          /\ \A r \in notification_preferences :
                (r.daily_reminder_enabled /\ r.daily_reminder_time.hour = 9
                    /\ r.daily_reminder_time.minute = 5)
                => (Invocations(tick', r.user_id) # {}
                       <=> (tick.hour = 9 /\ tick.minute \in 0..19))
          /\ \A u \in UserIds :
                (~\E r \in notification_preferences : r.user_id = u)
                   => Invocations(tick', u) = {}
      ]_vars

C9_Witness ==
    /\ tick.pc = "done" /\ tick.hour = 9 /\ tick.minute = 19
    /\ Len(tick.preferences_list) = 2
    /\ Len(tick.invoked) = 1
    /\ \E r \in notification_preferences :
          /\ r.user_id = tick.invoked[1]
          /\ r.daily_reminder_time.minute = 5

SweepJobs(s) == {i \in DOMAIN s.jobs : s.jobs[i].id = "daily_reminders_check"}

\* What start() and stop() are meant to switch.
Registered(s) == <<s.is_running, s.state, s.jobs>>

StartStep == scheduler'.op = "start" /\ scheduler' # scheduler

StopStep == scheduler'.op = "stop" /\ scheduler' # scheduler

\* C11: after any sequence of start() and stop() at most one job with id
\* daily_reminders_check is registered and it fires at minute 0; a start()
\* while running changes nothing; a start() while stopped registers the job,
\* returns normally and leaves the service running.
C11_StartIdempotent ==
    /\ [](/\ Cardinality(SweepJobs(scheduler)) <= 1
          /\ \A i \in SweepJobs(scheduler) : scheduler.jobs[i].minute = 0)
    /\ [][StartStep =>
             /\ ~scheduler.is_running
             /\ scheduler'.is_running
             /\ scheduler'.state = "running"
             /\ scheduler'.raised = None
             /\ Cardinality(SweepJobs(scheduler')) = 1]_vars

\* A second start() after a stop(): running again with one sweep job.
C11_Witness ==
    /\ scheduler.starts = MaxStarts
    /\ scheduler.is_running
    /\ Cardinality(SweepJobs(scheduler)) = 1

\* C12: a stop() while stopped changes nothing; a stop() while running
\* leaves the service stopped; while the service is stopped no step of
\* check_and_send_reminders is taken and no sweep is in progress.
C12_StopIdempotent ==
    /\ [][StopStep =>
             IF scheduler.is_running
             THEN ~scheduler'.is_running /\ scheduler'.state = "stopped"
             ELSE Registered(scheduler') = Registered(scheduler) /\ tick' = tick]_vars
    /\ [][tick' # tick => scheduler.is_running]_vars
    /\ [](~scheduler.is_running => TickFinished)

\* A stop() that came while a sweep was under way.
C12_Witness ==
    /\ ~scheduler.is_running
    /\ scheduler.op = "stop"
    /\ tick.cancelled
    /\ tick.session = "closed"

\* C13: a delivery-log row, once written, keeps all its fields and its place:
\* every step leaves the existing rows as they are and at most appends rows.
C13_LogAppendOnly ==
    [][/\ Len(delivery_logs') >= Len(delivery_logs)
       /\ \A i \in DOMAIN delivery_logs : delivery_logs'[i] = delivery_logs[i]]_vars

\* Statuses of the rows the current call has written, oldest first.
CallStatuses == [i \in DOMAIN CallRows |-> CallRows[i].status]

\* failed*, then optionally delivered, then optionally retried.
InCompletionOrder(statuses) ==
    \A i \in DOMAIN statuses :
       CASE statuses[i] = "failed" -> TRUE
         [] statuses[i] = "delivered" ->
               /\ i >= Len(statuses) - 1
               /\ i = Len(statuses) - 1 => statuses[Len(statuses)] = "retried"
         [] statuses[i] = "retried" ->
               i = Len(statuses) /\ i > 1 /\ statuses[i - 1] = "delivered"
         [] OTHER -> FALSE

SendAnswerStep ==
    /\ response'.endpoint = "send_post_notification"
    /\ response' # response \/ background_tasks' # background_tasks
    /\ Len(background_tasks') >= Len(background_tasks)

\* This step runs the oldest queued background task.
TaskStep == Len(background_tasks') < Len(background_tasks)

\* The answer to a manual send for an owned post and a valid channel is
\* "queued", given before any adapter call or log row of that send.
QueuedFirst ==
    [][SendAnswerStep =>
         LET request == response'.request
         IN  (OwnedPost(request.user_id, request.post_id)
                 /\ request.channel \in Channels) =>
               /\ response'.status_code = 200
               /\ response'.body.status = "queued"
               /\ background_tasks' = Append(background_tasks,
                     [user_id |-> request.user_id, post_id |-> request.post_id,
                      channel |-> request.channel])
               /\ UNCHANGED <<delivery_logs, call>>]_vars

\* The row a finished send leaves for its caller.
OutcomeRow(task, success) ==
    /\ Len(delivery_logs') = Len(delivery_logs) + 1
    /\ LET row == delivery_logs'[Len(delivery_logs')]
       IN  /\ row.user_id = task.user_id
           /\ row.post_id = task.post_id
           /\ row.channel = task.channel
           /\ row.status = IF success THEN "delivered" ELSE "failed"

C18_DraftToPublished ==
    /\ [](\A p \in DOMAIN posts : posts[p].status \in {"draft", "published"})
    /\ [][\A p \in DOMAIN posts \cap DOMAIN posts' :
             posts[p].status = "published" => posts'[p].status = "published"]_vars
    /\ [][(response' # response /\ response'.endpoint = "publish_draft") =>
             LET request == response'.request
             IN  (OwnedPost(request.user_id, request.post_id)
                     /\ posts[request.post_id].status # "draft") =>
                   response'.status_code = 400 /\ posts' = posts]_vars

\* A publish request for a post that is already published was rejected.
C18_Witness ==
    /\ response.endpoint = "publish_draft"
    /\ response.status_code = 400
    /\ response.request.post_id \in DOMAIN posts
    /\ posts[response.request.post_id].status = "published"

\* C19: the delivery-log query for user A answers only rows of A, and its
\* total is the number of A's rows, for every page and limit.
C19_LogIsolation ==
    [][(response' # response /\ response'.endpoint = "get_delivery_logs") =>
         LET A == response'.request.user_id
             answer == response'.body
         IN  /\ \A i \in DOMAIN answer.logs : answer.logs[i].user_id = A
             /\ answer.total =
                   Cardinality({i \in DOMAIN delivery_logs :
                                  delivery_logs[i].user_id = A})]_vars

\* A's rows were listed while another user had rows too.
C19_Witness ==
    /\ response.endpoint = "get_delivery_logs"
    /\ response.body.logs # <<>>
    /\ response.body.total >= 1
    /\ \E i \in DOMAIN delivery_logs :
          delivery_logs[i].user_id # response.request.user_id

\* C20: when log_delivery raises, the call that awaited it ends by that
\* exception and not by a (false, error) pair, and a retry_send call that has
\* ended so makes no further attempt.
C20_StorageErrorPropagates ==
    /\ [](call.storage_errors > 0 =>
             /\ call.pc = "raised"
             /\ call.exc = "StorageError"
             /\ ~call.success /\ call.error = None)
    /\ [][(call.kind = "retry" /\ call.pc = "raised") => ~AttemptStep]_vars

\* A retry_send whose second attempt hit the storage error, with attempts left.
C20_Witness ==
    /\ call.kind = "retry"
    /\ call.pc = "raised"
    /\ call.storage_errors = 1
    /\ Len(call.attempt_results) = 2
    /\ call.max_retries > 2

\* C16: whatever GET and PUT settings requests are served, and however
\* their queries and commits interleave, no user has two preference rows.
C16_OneRowPerUser ==
    \A u \in UserIds : Cardinality(QueryPreferences(u)) <= 1

\* Two requests of one user both found no row; the second insert was refused.
C16_Witness ==
    /\ response.status_code = 500
    /\ response.body = [detail |-> "IntegrityError"]
    /\ Cardinality(QueryPreferences(response.request.user_id)) = 1

\* C17: GET settings for a user without a preference row answers 200 with
\* email on, chat off, reminder off and reminder time 09:00:00.
C17_DefaultsOnRead ==
    [][(response' # response
          /\ response'.endpoint = "get_notification_settings"
          /\ ~HasPreferences(response'.request.user_id)) =>
         /\ response'.status_code = 200
         /\ response'.body =
               NotificationPreferences(response'.request.user_id, TRUE, FALSE,
                                       FALSE, time_obj(9, 0, 0))]_vars

\* The user's chat flag is on (or there is no row) and no chat id is stored.
ChatOnNoDestination(user_id) ==
    /\ user_id \in UserIds
    /\ ~FlagOff(user_id, "telegram")
    /\ telegram_chat_id[user_id] \in {None, ""}

\* The row of a chat send that found no destination.
NotConfiguredRow(c) ==
    [user_id |-> c.user_id, post_id |-> c.post_id, channel |-> "telegram",
     status |-> "failed", error_message |-> "Telegram chat ID not configured"]

\* C21: a chat send for a user with chat enabled and no destination id
\* invokes no adapter; the missing destination is reported by the pair
\* (false, "Telegram chat ID not configured") and by exactly one `failed` row
\* carrying that error, and the call ends by an exception only when the write
\* of that row does.  Holds for direct calls and for each attempt of
\* retry_send.
C21_NoDestination ==
    [][/\ (SendStep /\ call'.channel = "telegram"
              /\ ChatOnNoDestination(call'.user_id))
          => /\ call'.adapter_calls = <<>>
             /\ call'.pc = "raised" => call'.storage_errors = 1
             /\ call'.storage_errors = 0
                => /\ call'.pc = "returned" /\ ~call'.success
                   /\ call'.error = "Telegram chat ID not configured"
                   /\ delivery_logs' = Append(delivery_logs, NotConfiguredRow(call'))
       /\ (AttemptStep /\ call.channel = "telegram"
              /\ ChatOnNoDestination(call.user_id))
          => /\ call'.adapter_calls = call.adapter_calls
             /\ ~LastResult(call').success
             /\ LastResult(call').error = "Telegram chat ID not configured"
             /\ call'.pc = "raised" => call'.storage_errors = call.storage_errors + 1
             /\ call'.storage_errors = call.storage_errors
                => delivery_logs' = Append(delivery_logs, NotConfiguredRow(call))
      ]_vars

\* A chat send for a user whose row has chat on and who has linked no chat.
C21_Witness ==
    /\ call.kind = "send" /\ call.pc = "returned" /\ call.channel = "telegram"
    /\ \E r \in notification_preferences :
          r.user_id = call.user_id /\ r.receive_telegram_notifications
    /\ telegram_chat_id[call.user_id] = None
    /\ ~call.success /\ call.error = "Telegram chat ID not configured"
    /\ call.adapter_calls = <<>>
    /\ CallRows = <<NotConfiguredRow(call)>>

\* C22: send_daily_reminder for an existing user whose row has daily
\* reminders off, or who has no row, returns (false, "Daily reminders not
\* enabled"), invokes no adapter and leaves the delivery log as it was.
C22_RemindersOff ==
    [][(ReminderStep /\ call'.user_id \in UserIds /\ ~ReminderOn(call'.user_id))
       => /\ call'.pc = "returned" /\ ~call'.success
          /\ call'.error = "Daily reminders not enabled"
          /\ call'.adapter_calls = <<>>
          /\ delivery_logs' = delivery_logs
      ]_vars

\* A reminder for a user who has a row with both channels on, a chat linked
\* and the reminder switched off.
C22_Witness ==
    /\ call.kind = "reminder" /\ call.pc = "returned"
    /\ \E r \in notification_preferences :
          /\ r.user_id = call.user_id
          /\ ~r.daily_reminder_enabled
          /\ r.receive_email_notifications /\ r.receive_telegram_notifications
    /\ telegram_chat_id[call.user_id] \notin {None, ""}
    /\ ~call.success /\ call.error = "Daily reminders not enabled"
    /\ call.adapter_calls = <<>>
    /\ CallRows = <<>>

\* The same answer for a user who has no row at all.
C22_WitnessNoRow ==
    /\ call.kind = "reminder" /\ call.pc = "returned"
    /\ call.user_id \in UserIds
    /\ ~HasPreferences(call.user_id)
    /\ call.error = "Daily reminders not enabled"

\* The version rows of one template, oldest first.
RowsOfTemplate(rows, template_id) ==
    SelectSeq(rows, LAMBDA row : row.template_id = template_id)

\* The fields whose change makes a new version.
Versioned(template) == <<template.prompt, template.structure, template.tone>>

\* This step creates a template.
CreateStep == DOMAIN templates' # DOMAIN templates /\ DOMAIN templates \subseteq DOMAIN templates'

\* This step leaves the set of templates as it is: an update, if anything.
UpdateStep == DOMAIN templates' = DOMAIN templates

\* C23: the version rows of every template are numbered 1, 2, ..., n in the
\* order of their creation, with n >= 1; creating a template appends its
\* version 1; an update that changes prompt, structure or tone appends exactly
\* one row, numbered one above the template's previous maximum and holding
\* the new values; an update that changes none of the three appends nothing.
C23_VersionsNumbered ==
    /\ [](\A t \in DOMAIN templates :
             LET rows == RowsOfTemplate(template_versions, t)
             IN  /\ Len(rows) >= 1
                 /\ \A k \in 1..Len(rows) : rows[k].version = k)
    /\ [][CreateStep =>
             \E t \in DOMAIN templates' \ DOMAIN templates :
                template_versions' = Append(template_versions,
                   [template_id |-> t, version |-> 1,
                    prompt |-> templates'[t].prompt,
                    structure |-> templates'[t].structure,
                    tone |-> templates'[t].tone])]_vars
    /\ [][UpdateStep =>
             /\ \A t \in DOMAIN templates :
                   Versioned(templates'[t]) # Versioned(templates[t]) =>
                      template_versions' = Append(template_versions,
                         [template_id |-> t,
                          version |-> Len(RowsOfTemplate(template_versions, t)) + 1,
                          prompt |-> templates'[t].prompt,
                          structure |-> templates'[t].structure,
                          tone |-> templates'[t].tone])
             /\ (\A t \in DOMAIN templates :
                    Versioned(templates'[t]) = Versioned(templates[t]))
                => template_versions' = template_versions]_vars

\* A template renamed and twice re-versioned, beside another template.
C23_Witness ==
    /\ 1 \in DOMAIN templates /\ 2 \in DOMAIN templates
    /\ templates[1].name = "Renamed"
    /\ Len(RowsOfTemplate(template_versions, 1)) = 3
    /\ RowsOfTemplate(template_versions, 1)[3].version = 3
    /\ template_versions[Len(template_versions)].template_id = 2

\* How many waits a retry_send call has made by now, read off its position:
\* none before attempt 0, one before each later attempt, none after the last.
WaitsDue(c) ==
    CASE c.pc = "attempt" -> c.attempt
      [] c.pc = "sleep" -> c.attempt - 1
      [] OTHER -> IF c.attempt_results = <<>> THEN 0
                  ELSE Len(c.attempt_results) - 1

\* C24, as stated: no wait before attempt 0 and none after the final attempt,
\* and the waits between consecutive attempts are 1, 2, 4, ... units.
C24_BackoffFromOne ==
    call.kind = "retry" =>
       /\ Len(call.sleeps) = WaitsDue(call)
       /\ \A k \in DOMAIN call.sleeps :
             call.sleeps[k] = (IF k = 1 THEN 1 ELSE 2 * call.sleeps[k - 1])

\* C24, amended: no wait before attempt 0 and none after the final attempt,
\* and the wait before attempt index k >= 1 is 2^k units, so the waits between
\* consecutive attempts are 2, 4, 8, ... units.
C24_BackoffFromTwo ==
    call.kind = "retry" =>
       /\ Len(call.sleeps) = WaitsDue(call)
       /\ \A k \in DOMAIN call.sleeps :
             call.sleeps[k] = (IF k = 1 THEN 2 ELSE 2 * call.sleeps[k - 1])

\* A retry_send that used all three attempts: it waited 2, then 4.
C24_Witness ==
    /\ call.kind = "retry" /\ call.pc = "returned"
    /\ Len(call.attempt_results) = 3
    /\ call.sleeps = <<2, 4>>

LastPath(c) == c.paths[Len(c.paths)]

\* C25: each attempt of retry_send acts on the preference row as it is when
\* the attempt runs.  An attempt that finds the channel's flag off, also when
\* it was switched off during the call's backoff sleep, is stopped as
\* disabled, invokes no adapter and leaves the log, with the rows of the
\* earlier attempts, as it was; an attempt that finds the flag on goes to the
\* channel step.  The stopped attempts count as failed attempts: the loop runs
\* on to max_retries and the call returns failure.
C25_RereadsPreferences ==
    /\ [][(AttemptStep /\ call.user_id \in UserIds) =>
             IF FlagOff(call.user_id, call.channel)
             THEN /\ LastPath(call') = "disabled"
                  /\ ~LastResult(call').success
                  /\ LastResult(call').error = DisabledMessage(call.channel)
                  /\ call'.adapter_calls = call.adapter_calls
                  /\ delivery_logs' = delivery_logs
             ELSE LastPath(call') = "sent"]_vars
    /\ [](RetryReturned /\ LastPath(call) = "disabled" =>
             /\ ~call.success
             /\ Len(call.attempt_results) = call.max_retries
             /\ call.error = FailedAfter(call.max_retries, DisabledMessage(call.channel)))

\* The channel was switched off during the first backoff sleep: one attempt
\* reached the adapter and left its row, the two later ones were stopped.
C25_Witness ==
    /\ RetryReturned
    /\ call.paths = <<"sent", "disabled", "disabled">>
    /\ Len(call.adapter_calls) = 1
    /\ Len(CallRows) = 1 /\ CallRows[1].status = "failed"
    /\ call.sleeps = <<2, 4>>

\* Invocations of the reminder path so far, those of the current sweep included.
Reminded == reminded \cup Reminders(tick, clock)

\* Sweeps begun in a row, all with the user's present setting, since the
\* reminder path was last invoked for the user.
HoursWaiting(u) ==
    IF \E row \in InvokedRows(tick) : row.user_id = u THEN 0
    ELSE waiting[u].hours

\* The user has reminders on and the last HoursWaiting(u) sweeps saw this setting.
Settled(u) ==
    /\ scheduler.is_running
    /\ TickFinished
    /\ RemindersEnabled(u)
    /\ waiting[u].row = FirstPreferences(u)

\* C26: while the scheduler runs, no user with reminders on sees 24 hourly
\* sweeps in a row go by, the setting unchanged, without the reminder path
\* being invoked for them, whatever time is configured.
C26_RemindedDaily ==
    \A u \in UserIds : Settled(u) => HoursWaiting(u) < HoursPerDay

\* The same for the users whose configured minute is below 15.
RemindedDailyWithinWindow ==
    \A u \in UserIds :
       (Settled(u) /\ FirstPreferences(u).daily_reminder_time.minute < 15)
          => HoursWaiting(u) < HoursPerDay

\* A day of sweeps has gone by for a user whose minute is below 15.
RemindedDailyWitness ==
    /\ clock.day >= 1
    /\ Settled(1)
    /\ FirstPreferences(1).daily_reminder_time.minute < 15
    /\ \E r \in Reminded : r.user_id = 1 /\ r.day = 1
    /\ \E r \in Reminded : r.user_id = 1 /\ r.day = 0

ChatFailed(c) ==
    /\ Len(c.adapter_calls) >= 1
    /\ c.adapter_calls[1].adapter = "telegram"
    /\ ~c.adapter_calls[1].success

CallbackStep ==
    /\ response'.endpoint = "telegram_callback"
    /\ response' # response \/ posts' # posts

\* Users whose stored chat id is the sender's.
LinkedTo(chat_id) == {u \in UserIds : telegram_chat_id[u] = chat_id}

\* What the pressed button does to the post it names.
ButtonEffect(action, post_id) ==
    CASE action = "approve" -> [posts EXCEPT ![post_id].status = "published"]
      [] action = "delete" -> [p \in DOMAIN posts \ {post_id} |-> posts[p]]
      [] OTHER -> posts

\* C29: a chat callback leaves every post as it is unless the post it names
\* is owned by a user whose stored chat id is the sender's id.  When it is,
\* approve sets that post to published, delete removes it, regenerate and
\* unknown actions change nothing, and no other post is touched; when several
\* users have stored the sender's id and the handler picks one who does not
\* own the post, nothing changes either.
C29_CallbackOwnerOnly ==
    [][CallbackStep =>
         LET request == response'.request
             owners == {u \in LinkedTo(request.chat_id) :
                          /\ request.post_id \in DOMAIN posts
                          /\ posts[request.post_id].user_id = u}
         IN  /\ owners = {} => posts' = posts
             /\ owners # {} =>
                   \/ posts' = ButtonEffect(request.action, request.post_id)
                   \/ /\ LinkedTo(request.chat_id) # owners
                      /\ posts' = posts
             /\ \A q \in DOMAIN posts \ {request.post_id} :
                   q \in DOMAIN posts' /\ posts'[q] = posts[q]]_vars

\* User 2 approved their own post from their chat; a draft of user 1 is as
\* it was.
C29_Witness ==
    /\ response.endpoint = "telegram_callback"
    /\ response.body = [ok |-> TRUE, response |-> "approve"]
    /\ response.request.post_id \in DOMAIN posts
    /\ LET p == response.request.post_id
       IN  /\ posts[p].status = "published"
           /\ posts[p].user_id = 2
           /\ LinkedTo(response.request.chat_id) = {2}
           /\ \E q \in DOMAIN posts :
                 posts[q].user_id = 1 /\ posts[q].status = "draft"

\* A press on the button of another user's post was answered and ignored.
IgnoredForeignPost ==
    /\ response.endpoint = "telegram_callback"
    /\ response.body = [ok |-> TRUE]
    /\ response.request.action \in {"approve", "delete"}
    /\ LinkedTo(response.request.chat_id) # {}
    /\ response.request.post_id \in DOMAIN posts
    /\ posts[response.request.post_id].user_id \notin LinkedTo(response.request.chat_id)
    /\ posts[response.request.post_id].status = "draft"

\* Both users had stored the sender's id, and the press on an owned post was
\* ignored because the handler took the other user.
IgnoredSharedChat ==
    /\ response.endpoint = "telegram_callback"
    /\ response.body = [ok |-> TRUE]
    /\ LinkedTo(response.request.chat_id) = UserIds
    /\ response.request.post_id \in DOMAIN posts

\* C30: a retry_send call with max_retries = 0 makes no send attempt, writes
\* no row and ends by returning failure, not by an exception.
C30_ZeroRetriesReturns ==
    (call.kind = "retry" /\ call.max_retries = 0) =>
       /\ call.attempt_results = <<>>
       /\ call.adapter_calls = <<>>
       /\ CallRows = <<>>
       /\ call.pc = "returned"
       /\ ~call.success
       /\ call.exc = None

====
